---- MODULE Spec2Model ----
(***************************************************************************)
(* ObjectReplacer (src/src/manipulators/ObjectReplacer.py): the collision- *)
(* aware substitution of scene objects by objects of a replacement pool.  *)
(*                                                                         *)
(* A scene is a record                                                     *)
(*   data     : handle -> object fields                                    *)
(*   mesh     : the handles that are mesh objects of the scene             *)
(*   selected : the host's current selection                               *)
(*   next     : the next handle the host hands out                         *)
(* A float is a pair <<n, d>>: the fraction n/d in lowest terms, with      *)
(* <<1, 0>> for inf and <<0, 0>> for nan (what numpy's float64 division    *)
(* yields for x/0 and 0/0).  A location or a rotation is a token: the      *)
(* engine only ever copies them.                                           *)
(***************************************************************************)
EXTENDS Integers, Sequences, FiniteSets, TLC

\* Bounds of the model.
MaxSources == 2
MaxPool == 2
MaxDup == 1

\* The values of replace_ratio the model draws from, as fractions.
Ratios == {<<0, 1>>, <<1, 2>>, <<2, 3>>, <<1, 1>>}

VARIABLES
    replace_ratio,            \* self._replace_ratio
    copy_properties,          \* self._copy_properties
    provided,                 \* what the two providers of the config select
    scene,                    \* the host scene
    scene0,                   \* the host scene as run() found it
    objects_to_be_replaced,   \* self._objects_to_be_replaced
    objects_to_replace_with,  \* self._objects_to_replace_with
    indices,                  \* the drawn pool indices
    idx,                      \* position of the for loop (1-based)
    original_object,          \* local of run()
    new_object,               \* local of run()
    duplicates,               \* local of run()
    pc,                       \* position of run()
    \* what happened, recorded for the properties
    outcomes,                 \* per assignment "Accepted" or "Rejected"
    attempted,                \* the sources handed to _can_replace, in order
    exactHit,                 \* this attempt: some checked object exactly intersects
    filteredHit,              \* this attempt: some checked object passes both tests
    dupResults,               \* number of handles each duplicate call returned
    placed,                   \* the placed instances, as they were when placed
    \* the variant of the engine that restores a rejected candidate's pose
    sceneRb, poolRb, canRb, outcomesRb, savedRb, intersectionRb, brokeRb,
    \* the loop of _can_replace
    intersection,             \* local of _can_replace
    broke,                    \* the loop was left by its break
    listed,                   \* the objects the loop goes through
    cursor                    \* position of the loop in them

vars == <<replace_ratio, copy_properties, provided, scene, scene0,
          objects_to_be_replaced, objects_to_replace_with, indices, idx,
          original_object, new_object, duplicates, pc, outcomes, attempted,
          exactHit, filteredHit, dupResults, placed,
          sceneRb, poolRb, canRb, outcomesRb, savedRb, intersectionRb, brokeRb,
          intersection, broke, listed, cursor>>

NoObject == 0

(***************************************************************************)
(* Arithmetic                                                              *)
(***************************************************************************)
RECURSIVE Gcd(_, _)
Gcd(a, b) == IF b = 0 THEN a ELSE Gcd(b, a % b)

\* a / b on float64 values holding the naturals a and b
FloatDiv(a, b) ==
    IF b = 0 THEN (IF a = 0 THEN <<0, 0>> ELSE <<1, 0>>)
    ELSE LET g == Gcd(a, b) IN <<a \div g, b \div g>>

\* x * y on floats (inf * 0 and anything * nan are nan)
FloatMul(x, y) ==
    IF x[2] = 0 \/ y[2] = 0
    THEN (IF x[1] = 0 \/ y[1] = 0 THEN <<0, 0>> ELSE <<1, 0>>)
    ELSE FloatDiv(x[1] * y[1], x[2] * y[2])

IsFinite(x) == x[2] # 0

ISqrt(s) == CHOOSE r \in 0..s : r * r <= s /\ s < (r + 1) * (r + 1)

Sq(x) == x * x

\* The product rounded up instead of truncated
AttemptCountCeil(ratio, n) == (ratio[1] * n + ratio[2] - 1) \div ratio[2]

\* Line 90, int(ratio * n): the product, truncated
AttemptCount(ratio, n) == (ratio[1] * n) \div ratio[2]

(***************************************************************************)
(* Geometry                                                                *)
(***************************************************************************)
two_points_distance(point1, point2) ==
    ISqrt(Sq(point1[1] - point2[1]) + Sq(point1[2] - point2[2])
          + Sq(point1[3] - point2[3]))

\* The eight corners of the object-local box of dimensions d, in the host's
\* corner order; corner k of the source is element k + 1 here.
BoundBox(d) ==
    << <<0, 0, 0>>, <<0, 0, d[3]>>, <<0, d[2], d[3]>>, <<0, d[2], 0>>,
       <<d[1], 0, 0>>, <<d[1], 0, d[3]>>, <<d[1], d[2], d[3]>>, <<d[1], d[2], 0>> >>

bb_ratio(bb1, bb2) ==
    LET ratio_a == FloatDiv(two_points_distance(bb1[1], bb1[4]),
                            two_points_distance(bb2[1], bb2[4]))
        ratio_b == FloatDiv(two_points_distance(bb1[1], bb1[5]),
                            two_points_distance(bb2[1], bb2[5]))
        ratio_c == FloatDiv(two_points_distance(bb1[1], bb1[2]),
                            two_points_distance(bb2[1], bb2[2]))
    IN <<ratio_a, ratio_b, ratio_c>>

(***************************************************************************)
(* The host scene                                                          *)
(***************************************************************************)
Ones == << <<1, 1>>, <<1, 1>>, <<1, 1>> >>

SourceProps(i) ==
    IF i = 1 THEN [k \in {"category_id", "is_cc"} |-> 1]
    ELSE IF i = 2 THEN [k \in {"category_id"} |-> 2]
    ELSE [k \in {"category_id", "room"} |-> i]

\* Bounding-box dimensions (x, y, z); the second source and the second
\* template are flat meshes, whose boxes have no extent along y.
SourceDims(i) == IF i = 2 THEN <<1, 0, 2>> ELSE <<2, i, 1>>

PoolDims(j) == IF j = 2 THEN <<2, 0, 1>> ELSE <<j, 1, 1>>

NoProps == [k \in {} |-> 0]

PoolProps(j) == [k \in {"category_id", "model"} |-> IF k = "model" THEN 10 + j ELSE 0]

NewObj(nm, h, dims, hidden, pr) ==
    [name |-> nm, location |-> h, rotation_euler |-> h, scale |-> Ones,
     dims |-> dims, hide_render |-> hidden, props |-> pr]

\* Sources 1..n, pool templates n+1..n+p, then the floor and a wall.
InitialScene(n, p, poolHidden) ==
    [data |-> [h \in 1..(n + p + 2) |->
                 IF h <= n THEN NewObj(<<"Chair">>, h, SourceDims(h), FALSE, SourceProps(h))
                 ELSE IF h <= n + p
                      THEN NewObj(<<"Ikea">>, h, PoolDims(h - n), poolHidden, PoolProps(h - n))
                 ELSE IF h = n + p + 1
                      THEN NewObj(<<"Floor">>, h, <<4, 4, 0>>, FALSE, NoProps)
                 ELSE NewObj(<<"Wall">>, h, <<4, 0, 2>>, FALSE, NoProps)],
     mesh |-> 1..(n + p + 2),
     selected |-> {},
     next |-> n + p + 3]

RECURSIVE SortedSeq(_)
SortedSeq(S) ==
    IF S = {} THEN <<>>
    ELSE LET m == CHOOSE x \in S : \A y \in S : x <= y
         IN <<m>> \o SortedSeq(S \ {m})

\* "Floor" in obj.name, on a name held as its sequence of words
NameContains(nm, w) == \E i \in 1..Len(nm) : nm[i] = w

SelectOnly(sc, o) == [sc EXCEPT !.selected = {o}]

SetHideRender(sc, o, v) == [sc EXCEPT !.data[o].hide_render = v]

\* bpy.ops.object.delete(): the selected objects leave the scene
DeleteSelected(sc) == [sc EXCEPT !.mesh = @ \ sc.selected, !.selected = {}]

\* duplicate_objects(obj) returning k new handles, which end up selected
DuplicateObjects(sc, o, k) ==
    LET new == sc.next..(sc.next + k - 1)
    IN [data |-> [h \in DOMAIN sc.data \cup new |->
                    IF h \in new
                    THEN [sc.data[o] EXCEPT !.name = Append(@, ".001")]
                    ELSE sc.data[h]],
        mesh |-> sc.mesh \cup new,
        selected |-> new,
        next |-> sc.next + k]

DuplicateHandles(sc, k) == [i \in 1..k |-> sc.next + i - 1]

(***************************************************************************)
(* _can_replace                                                            *)
(***************************************************************************)
\* A scale that multiplies the ratios onto the scale the object already has
AlignedScaleOnto(sc, obj1, obj2) ==
    LET r == bb_ratio(BoundBox(sc.data[obj1].dims), BoundBox(sc.data[obj2].dims))
    IN [a \in 1..3 |-> FloatMul(sc.data[obj2].scale[a], r[a])]

\* The scale line 69 assigns: the ratios of the two object-local boxes
AlignedScale(sc, obj1, obj2) ==
    bb_ratio(BoundBox(sc.data[obj1].dims), BoundBox(sc.data[obj2].dims))

\* Lines 63-69: obj2 takes location, rotation and rough scale of obj1
Align(sc, obj1, obj2, doScale) ==
    LET sel == SelectOnly(sc, obj2)
    IN [sel EXCEPT !.data[obj2] =
           [@ EXCEPT !.location = sc.data[obj1].location,
                     !.rotation_euler = sc.data[obj1].rotation_euler,
                     !.scale = IF doScale THEN AlignedScale(sc, obj1, obj2) ELSE @]]

\* One pass of the loop body without the break of line 81
LoopStepNoBreak(sc, obj, obj1, obj2, isect, bbHits, exHits) ==
    IF obj # obj2 /\ obj1 # obj /\ ~NameContains(sc.data[obj].name, "Floor")
    THEN IF obj \in bbHits
         THEN [intersection |-> obj \in exHits, brk |-> FALSE]
         ELSE [intersection |-> FALSE, brk |-> FALSE]
    ELSE [intersection |-> isect, brk |-> FALSE]

\* One pass of the loop body, lines 76-81.  bbHits and exHits are the objects
\* for which the host's check_bb_intersection and check_intersection answer
\* true against obj2.
LoopStep(sc, obj, obj1, obj2, isect, bbHits, exHits) ==
    IF obj # obj2 /\ obj1 # obj /\ ~NameContains(sc.data[obj].name, "Floor")
    THEN IF obj \in bbHits
         THEN [intersection |-> obj \in exHits, brk |-> obj \in exHits]
         ELSE [intersection |-> FALSE, brk |-> FALSE]
    ELSE [intersection |-> isect, brk |-> FALSE]

\* The objects the host can be asked about for candidate obj2 replacing obj1
Rivals(sc, obj1, obj2) ==
    {o \in sc.mesh : o # obj2 /\ o # obj1 /\ ~NameContains(sc.data[o].name, "Floor")}

(***************************************************************************)
(* The accepted branch of run()                                            *)
(***************************************************************************)
\* Lines 101-102: every item of the original object is set on the new one
CopyProperties(sc, obj1, obj2) ==
    LET from == sc.data[obj1].props
        to == sc.data[obj2].props
    IN [sc EXCEPT !.data[obj2].props =
           [k \in DOMAIN to \cup DOMAIN from |->
              IF k \in DOMAIN from THEN from[k] ELSE to[k]]]

\* A slot that is never given the duplicate
StoreDuplicateNever(pool, slot, dups) == pool

\* Lines 106-107
StoreDuplicate(pool, slot, dups) ==
    IF Len(dups) > 0 THEN [pool EXCEPT ![slot] = dups[1]] ELSE pool

\* Line 110
HideOriginalObject(sc, obj1) == SetHideRender(sc, obj1, TRUE)

\* The new object hidden instead of shown
ShowNewObjectHides(sc, obj2) == SetHideRender(sc, obj2, TRUE)

\* Line 111
ShowNewObject(sc, obj2) == SetHideRender(sc, obj2, FALSE)

\* Lines 115-117
DeleteOriginalObject(sc, obj1) == DeleteSelected(SelectOnly(sc, obj1))

\* Lines 99-117 in one piece, the duplicate call returning k handles
Commit(sc, pool, slot, obj1, obj2, copy, k) ==
    LET s1 == IF copy # 0 THEN CopyProperties(sc, obj1, obj2) ELSE sc
        s2 == DuplicateObjects(s1, obj2, k)
        s3 == HideOriginalObject(s2, obj1)
        s4 == ShowNewObject(s3, obj2)
    IN [scene |-> DeleteOriginalObject(s4, obj1),
        pool |-> StoreDuplicate(pool, slot, DuplicateHandles(s1, k))]

\* The variant's rejection: the candidate gets back the pose it had
RestorePose(sc, obj2, before) ==
    [sc EXCEPT !.data[obj2] =
        [@ EXCEPT !.location = before.location,
                  !.rotation_euler = before.rotation_euler,
                  !.scale = before.scale]]

\* What the engine can change of an object
Fields(sc, o) ==
    <<sc.data[o].location, sc.data[o].rotation_euler, sc.data[o].scale,
      sc.data[o].props, sc.data[o].hide_render>>

Geometry(sc, o) ==
    <<sc.data[o].location, sc.data[o].rotation_euler, sc.data[o].scale, sc.data[o].dims>>

(***************************************************************************)
(* np.random.choice(a, size)                                               *)
(***************************************************************************)
\* A check that raises on every empty population
ChoiceRaisesOnEmpty(a, size) == a <= 0

\* ValueError: a must be greater than 0 unless no samples are taken
ChoiceRaises(a, size) == a <= 0 /\ size # 0

(***************************************************************************)
(* The state machine of run()                                              *)
(***************************************************************************)
\* Everything of the state that run() sets before it reads it
Fresh ==
    /\ scene0 = scene
    /\ objects_to_be_replaced = <<>>
    /\ objects_to_replace_with = <<>>
    /\ indices = <<>>
    /\ idx = 1
    /\ original_object = NoObject
    /\ new_object = NoObject
    /\ duplicates = <<>>
    /\ pc = "start"
    /\ outcomes = <<>>
    /\ attempted = <<>>
    /\ exactHit = FALSE
    /\ filteredHit = FALSE
    /\ dupResults = <<>>
    /\ placed = {}
    /\ sceneRb = scene
    /\ poolRb = <<>>
    /\ canRb = FALSE
    /\ outcomesRb = <<>>
    /\ savedRb = NoObject
    /\ intersectionRb = FALSE
    /\ brokeRb = FALSE
    /\ intersection = FALSE
    /\ broke = FALSE
    /\ listed = <<>>
    /\ cursor = 1

\* The providers' selections: sources 1..n and templates n+1..n+p
Provided(n, p) ==
    [be_replaced |-> [i \in 1..n |-> i], replace_with |-> [j \in 1..p |-> n + j]]

Init ==
    /\ replace_ratio \in Ratios
    /\ copy_properties \in {0, 1}
    /\ \E n \in 0..MaxSources, p \in 0..MaxPool, hidden \in BOOLEAN :
          /\ provided = Provided(n, p)
          /\ scene = InitialScene(n, p, hidden)
    /\ Fresh

\* The scenario of one template and three sources, all to be replaced
InitScenario ==
    /\ replace_ratio = <<1, 1>>
    /\ copy_properties \in {0, 1}
    /\ \E hidden \in BOOLEAN :
          /\ provided = Provided(3, 1)
          /\ scene = InitialScene(3, 1, hidden)
    /\ Fresh

\* Lines 85-90: the two lists are read and the pool indices drawn
RunStart ==
    /\ pc = "start"
    /\ objects_to_be_replaced' = provided.be_replaced
    /\ objects_to_replace_with' = provided.replace_with
    /\ poolRb' = provided.replace_with
    /\ LET a == Len(provided.replace_with)
           size == AttemptCount(replace_ratio, Len(provided.be_replaced))
       IN IF ChoiceRaises(a, size)
          THEN /\ pc' = "error"
               /\ indices' = <<>>
          ELSE /\ pc' = "loop"
               /\ indices' \in [1..size -> 1..a]
    /\ UNCHANGED <<replace_ratio, copy_properties, provided, scene, scene0, idx,
                   original_object, new_object, duplicates, outcomes, attempted,
                   exactHit, filteredHit, dupResults, placed, sceneRb, canRb,
                   outcomesRb,
                   savedRb, intersectionRb, brokeRb, intersection, broke, listed, cursor>>

\* get_all_mesh_objects(): the handles either scene holds, in the order the
\* host lists them
Listing == SortedSeq(scene.mesh \cup sceneRb.mesh)

\* Lines 94-95 and 63-69: the next assignment is taken up and the new object
\* is aligned with the original one.  The variant keeps the pose to restore.
AlignNewObject ==
    /\ pc = "loop"
    /\ idx <= Len(indices)
    /\ LET obj1 == objects_to_be_replaced[idx]
           obj2 == objects_to_replace_with[indices[idx]]
           obj2R == poolRb[indices[idx]]
       IN /\ original_object' = obj1
          /\ new_object' = obj2
          /\ scene' = Align(scene, obj1, obj2, TRUE)
          /\ attempted' = Append(attempted, obj1)
          /\ savedRb' = sceneRb.data[obj2R]
          /\ sceneRb' = Align(sceneRb, obj1, obj2R, TRUE)
    /\ intersection' = FALSE
    /\ broke' = FALSE
    /\ intersectionRb' = FALSE
    /\ brokeRb' = FALSE
    /\ listed' = Listing
    /\ cursor' = 1
    /\ exactHit' = FALSE
    /\ filteredHit' = FALSE
    /\ pc' = "check"
    /\ UNCHANGED <<replace_ratio, copy_properties, provided, scene0,
                   objects_to_be_replaced, objects_to_replace_with, indices, idx,
                   duplicates, outcomes, dupResults, placed, poolRb, canRb,
                   outcomesRb>>

\* Lines 73-81 for one object of the scene.  bb and ex are what the host's
\* check_bb_intersection and check_intersection answer for it against the
\* new object; they are the host's truth whether or not the loop, once left
\* by its break, still asks.  The variant gets the same answers where its
\* scene holds the same geometry and answers of the host's choosing elsewhere.
CheckObject ==
    /\ pc = "check"
    /\ cursor <= Len(listed)
    /\ LET obj == listed[cursor]
           obj2R == poolRb[indices[idx]]
           inA == obj \in scene.mesh
           inR == obj \in sceneRb.mesh
           same == /\ inA /\ inR
                   /\ Geometry(scene, obj) = Geometry(sceneRb, obj)
                   /\ Geometry(scene, new_object) = Geometry(sceneRb, obj2R)
       IN \E bb \in BOOLEAN, ex \in BOOLEAN, bbR \in BOOLEAN, exR \in BOOLEAN :
             /\ same => (bbR = bb /\ exR = ex)
             /\ ~inA => (bb = FALSE /\ ex = FALSE)
             /\ ~inR => (bbR = FALSE /\ exR = FALSE)
             /\ LET s == LoopStep(scene, obj, original_object, new_object,
                                  intersection, IF bb THEN {obj} ELSE {},
                                  IF ex THEN {obj} ELSE {})
                    sR == LoopStep(sceneRb, obj, original_object, obj2R,
                                   intersectionRb, IF bbR THEN {obj} ELSE {},
                                   IF exR THEN {obj} ELSE {})
                    rival == inA /\ obj \in Rivals(scene, original_object, new_object)
                IN /\ intersection' = IF inA /\ ~broke THEN s.intersection ELSE intersection
                   /\ broke' = IF inA /\ ~broke THEN s.brk ELSE broke
                   /\ intersectionRb' = IF inR /\ ~brokeRb THEN sR.intersection
                                        ELSE intersectionRb
                   /\ brokeRb' = IF inR /\ ~brokeRb THEN sR.brk ELSE brokeRb
                   /\ exactHit' = (exactHit \/ (rival /\ ex))
                   /\ filteredHit' = (filteredHit \/ (rival /\ bb /\ ex))
    /\ cursor' = cursor + 1
    /\ UNCHANGED <<replace_ratio, copy_properties, provided, scene, scene0,
                   objects_to_be_replaced, objects_to_replace_with, indices, idx,
                   original_object, new_object, duplicates, outcomes, attempted,
                   dupResults, placed, sceneRb, poolRb, canRb, outcomesRb, savedRb, listed, pc>>

\* Lines 82 and 97: not intersection decides the branch.  The variant, when
\* it rejects, gives the candidate its pose back.
CanReplaceReturns ==
    /\ pc = "check"
    /\ cursor > Len(listed)
    /\ outcomes' = Append(outcomes, IF ~intersection THEN "Accepted" ELSE "Rejected")
    /\ pc' = IF ~intersection THEN "copy" ELSE "else"
    /\ canRb' = ~intersectionRb
    /\ outcomesRb' = Append(outcomesRb, IF ~intersectionRb THEN "Accepted" ELSE "Rejected")
    /\ sceneRb' = IF ~intersectionRb THEN sceneRb
                  ELSE RestorePose(sceneRb, poolRb[indices[idx]], savedRb)
    /\ UNCHANGED <<replace_ratio, copy_properties, provided, scene, scene0,
                   objects_to_be_replaced, objects_to_replace_with, indices, idx,
                   original_object, new_object, duplicates, attempted,
                   exactHit, filteredHit, dupResults, placed, poolRb, savedRb,
                   intersection, broke, intersectionRb, brokeRb, listed, cursor>>

\* Lines 100-102
CopyProps ==
    /\ pc = "copy"
    /\ scene' = IF copy_properties # 0
                THEN CopyProperties(scene, original_object, new_object)
                ELSE scene
    /\ pc' = "dup"
    /\ UNCHANGED <<replace_ratio, copy_properties, provided, scene0,
                   objects_to_be_replaced, objects_to_replace_with, indices, idx,
                   original_object, new_object, duplicates, outcomes, attempted,
                   exactHit, filteredHit, dupResults, placed,
                   sceneRb, poolRb, canRb, outcomesRb,
                   savedRb, intersectionRb, brokeRb, intersection, broke, listed, cursor>>

\* Lines 105-107
Duplicate ==
    /\ pc = "dup"
    /\ \E k \in 0..MaxDup :
          /\ scene' = DuplicateObjects(scene, new_object, k)
          /\ duplicates' = DuplicateHandles(scene, k)
          /\ dupResults' = Append(dupResults, k)
    /\ objects_to_replace_with' =
          StoreDuplicate(objects_to_replace_with, indices[idx], duplicates')
    /\ pc' = "hide"
    /\ UNCHANGED <<replace_ratio, copy_properties, provided, scene0,
                   objects_to_be_replaced, indices, idx, original_object,
                   new_object, outcomes, attempted, exactHit, filteredHit, placed,
                   sceneRb, poolRb, canRb, outcomesRb,
                   savedRb, intersectionRb, brokeRb, intersection, broke, listed, cursor>>

\* Line 110
HideOriginal ==
    /\ pc = "hide"
    /\ scene' = HideOriginalObject(scene, original_object)
    /\ pc' = "show"
    /\ UNCHANGED <<replace_ratio, copy_properties, provided, scene0,
                   objects_to_be_replaced, objects_to_replace_with, indices, idx,
                   original_object, new_object, duplicates, outcomes, attempted,
                   exactHit, filteredHit, dupResults, placed,
                   sceneRb, poolRb, canRb, outcomesRb,
                   savedRb, intersectionRb, brokeRb, intersection, broke, listed, cursor>>

\* Line 111
ShowNew ==
    /\ pc = "show"
    /\ scene' = ShowNewObject(scene, new_object)
    /\ pc' = "delete"
    /\ UNCHANGED <<replace_ratio, copy_properties, provided, scene0,
                   objects_to_be_replaced, objects_to_replace_with, indices, idx,
                   original_object, new_object, duplicates, outcomes, attempted,
                   exactHit, filteredHit, dupResults, placed,
                   sceneRb, poolRb, canRb, outcomesRb,
                   savedRb, intersectionRb, brokeRb, intersection, broke, listed, cursor>>

\* What the variant does with the assignment the engine has just finished
VariantFinishes(k) ==
    IF canRb
    THEN LET slot == indices[idx]
             c == Commit(sceneRb, poolRb, slot, objects_to_be_replaced[idx],
                         poolRb[slot], copy_properties, k)
         IN sceneRb' = c.scene /\ poolRb' = c.pool
    ELSE UNCHANGED <<sceneRb, poolRb>>

\* Lines 115-117, and the loop moves on
DeleteOriginal ==
    /\ pc = "delete"
    /\ scene' = DeleteOriginalObject(scene, original_object)
    /\ placed' = placed \cup {[inst |-> new_object, dups |-> Len(duplicates),
                                src |-> original_object, slot |-> indices[idx],
                                snapshot |-> Fields(scene, new_object)]}
    /\ idx' = idx + 1
    /\ pc' = "loop"
    /\ VariantFinishes(Len(duplicates))
    /\ UNCHANGED <<replace_ratio, copy_properties, provided, scene0,
                   objects_to_be_replaced, objects_to_replace_with, indices,
                   original_object, new_object, duplicates, outcomes, attempted,
                   exactHit, filteredHit, dupResults, canRb, outcomesRb,
                   savedRb, intersectionRb, brokeRb, intersection, broke, listed, cursor>>

\* Lines 118-119: nothing but the message, and the loop moves on
CollisionFallback ==
    /\ pc = "else"
    /\ idx' = idx + 1
    /\ pc' = "loop"
    /\ \E k \in 0..MaxDup : VariantFinishes(k)
    /\ UNCHANGED <<replace_ratio, copy_properties, provided, scene, scene0,
                   objects_to_be_replaced, objects_to_replace_with, indices,
                   original_object, new_object, duplicates, outcomes, attempted,
                   exactHit, filteredHit, dupResults, placed, canRb, outcomesRb,
                   savedRb, intersectionRb, brokeRb, intersection, broke, listed, cursor>>

\* Line 121, after the last turn of the loop
ViewLayerUpdate ==
    /\ pc = "loop"
    /\ idx > Len(indices)
    /\ pc' = "done"
    /\ UNCHANGED <<replace_ratio, copy_properties, provided, scene, scene0,
                   objects_to_be_replaced, objects_to_replace_with, indices, idx,
                   original_object, new_object, duplicates, outcomes, attempted,
                   exactHit, filteredHit, dupResults, placed,
                   sceneRb, poolRb, canRb, outcomesRb,
                   savedRb, intersectionRb, brokeRb, intersection, broke, listed, cursor>>

\* A host operation of the accepted branch raises: run() ends there
HostFailure ==
    /\ pc \in {"dup", "hide", "show", "delete"}
    /\ pc' = "aborted"
    /\ UNCHANGED <<replace_ratio, copy_properties, provided, scene, scene0,
                   objects_to_be_replaced, objects_to_replace_with, indices, idx,
                   original_object, new_object, duplicates, outcomes, attempted,
                   exactHit, filteredHit, dupResults, placed,
                   sceneRb, poolRb, canRb, outcomesRb,
                   savedRb, intersectionRb, brokeRb, intersection, broke, listed, cursor>>

Next ==
    \/ RunStart
    \/ AlignNewObject
    \/ CheckObject
    \/ CanReplaceReturns
    \/ CopyProps
    \/ Duplicate
    \/ HideOriginal
    \/ ShowNew
    \/ DeleteOriginal
    \/ CollisionFallback
    \/ ViewLayerUpdate
    \/ HostFailure

Spec == Init /\ [][Next]_vars

SpecScenario == InitScenario /\ [][Next]_vars

(***************************************************************************)
(* Properties                                                              *)
(***************************************************************************)
Visible(o) == ~scene.data[o].hide_render

Slot == indices[idx]

\* _can_replace has answered and run() stands at the head of a branch
Decided == pc \in {"copy", "else"}

\* The last assignment taken up has been dealt with completely
Completed == pc \in {"loop", "done"} /\ Len(outcomes) >= 1

LastOutcome == outcomes[Len(outcomes)]

\* The original object is as run() found it and the slot holds what it held
Untouched(slot) ==
    /\ original_object \in scene.mesh
    /\ Visible(original_object)
    /\ scene.data[original_object] = scene0.data[original_object]
    /\ objects_to_replace_with[slot] = new_object

\* C1 as stated: if some object other than the candidate, the source and the
\* floor exactly intersects the posed candidate, the substitution is rejected,
\* the source stays visible and the slot keeps its handle, whatever the
\* bounding-box test answers.
C1_AnyExactHitRejects ==
    (Decided /\ exactHit) => (pc = "else" /\ Untouched(Slot))

\* C1 amended: if for some such object the bounding-box test answers true and
\* the exact test answers true, the substitution is rejected, the source stays
\* visible and unchanged, and the slot keeps its handle.
C1_FilteredHitRejects ==
    /\ (Decided /\ filteredHit) => (pc = "else" /\ Untouched(Slot))
    /\ (Completed /\ filteredHit) =>
          (LastOutcome = "Rejected" /\ Untouched(indices[idx - 1]))

C1_Witness ==
    /\ Completed
    /\ filteredHit
    /\ Len(outcomes) >= 2
    /\ outcomes[1] = "Accepted"

\* C2: if no checked object exactly intersects the posed candidate, the
\* substitution is accepted, and once it is through the source is hidden and
\* out of the scene while the placed replacement is visible.
C2_NoHitAccepts ==
    /\ (Decided /\ ~exactHit) => pc = "copy"
    /\ (Completed /\ ~exactHit) =>
          /\ LastOutcome = "Accepted"
          /\ scene.data[original_object].hide_render = TRUE
          /\ original_object \notin scene.mesh
          /\ new_object \in scene.mesh
          /\ scene.data[new_object].hide_render = FALSE

C2_Witness ==
    /\ Completed
    /\ ~exactHit
    /\ scene0.data[new_object].hide_render = TRUE

\* floor(r * n) for r = ratio[1] / ratio[2]
Floor(ratio, n) ==
    CHOOSE k \in 0..n : k * ratio[2] <= ratio[1] * n /\ ratio[1] * n < (k + 1) * ratio[2]

\* C3: the sources attempted are the first floor(r * n) of the source list,
\* each once and in list order, and none beyond.
C3_AttemptedPrefix ==
    LET n == Len(provided.be_replaced)
        count == Floor(replace_ratio, n)
    IN /\ Len(attempted) <= count
       /\ attempted = SubSeq(provided.be_replaced, 1, Len(attempted))
       /\ (pc = "done" /\ Len(provided.replace_with) > 0) =>
             attempted = SubSeq(provided.be_replaced, 1, count)

C3_Witness ==
    /\ pc = "done"
    /\ Len(provided.be_replaced) = 2
    /\ replace_ratio = <<1, 2>>
    /\ attempted = <<1>>

\* The scenario of C4: one template, three sources, ratio 1, nothing rejected,
\* every duplicate call returning one handle, the run through.
C4_Scenario ==
    /\ pc = "done"
    /\ Len(provided.replace_with) = 1
    /\ Len(provided.be_replaced) = 3
    /\ replace_ratio = <<1, 1>>
    /\ \A i \in 1..Len(outcomes) : outcomes[i] = "Accepted"
    /\ \A i \in 1..Len(dupResults) : dupResults[i] = 1

\* C4 as stated: three accepted substitutions, the slot duplicated exactly
\* twice, and the slot ends with a handle other than the template.
C4_DuplicatedTwice ==
    C4_Scenario =>
       /\ Len(outcomes) = 3
       /\ Len(dupResults) = 2
       /\ objects_to_replace_with[1] # provided.replace_with[1]

\* C4 amended: three accepted substitutions, the slot duplicated three times
\* (once per accepted substitution), and the slot ends with a handle the host
\* created during the run.
C4_DuplicatedPerAccept ==
    C4_Scenario =>
       /\ Len(outcomes) = 3
       /\ Len(dupResults) = 3
       /\ objects_to_replace_with[1] # provided.replace_with[1]
       /\ objects_to_replace_with[1] \notin DOMAIN scene0.data

C4_Witness == C4_Scenario

EmptyPool == pc # "start" /\ Len(provided.replace_with) = 0

\* C5 as stated: an empty pool with a non-empty source list and a ratio above
\* zero makes run() fail before any assignment, the scene untouched.
C5_EmptyPoolFails ==
    (EmptyPool /\ Len(provided.be_replaced) > 0 /\ replace_ratio[1] > 0) =>
       (pc = "error" /\ scene = scene0 /\ attempted = <<>>)

\* C5 amended: with an empty pool run() fails before any assignment exactly
\* when floor(r * n) > 0, and completes without an assignment otherwise; the
\* scene is untouched either way.
C5_EmptyPoolFailsWhenCountPositive ==
    EmptyPool =>
       /\ scene = scene0
       /\ attempted = <<>>
       /\ IF Floor(replace_ratio, Len(provided.be_replaced)) > 0
          THEN pc = "error"
          ELSE pc \in {"loop", "done"}

C5_Witness ==
    /\ pc = "error"
    /\ Len(provided.be_replaced) > 0
    /\ scene = scene0

\* C6: no non-finite scale is ever stored on a scene object.
C6_ScalesFinite ==
    \A o \in DOMAIN scene.data : \A a \in 1..3 : IsFinite(scene.data[o].scale[a])

\* C7 as stated: a placed instance keeps position, orientation, scale,
\* properties and visibility through every later assignment, whatever the
\* duplicate call returned.
C7_PlacedNeverChanges ==
    \A q \in placed : Fields(scene, q.inst) = q.snapshot

\* C7 amended: a placed instance whose duplicate call returned at least one
\* handle keeps position, orientation, scale, properties and visibility
\* through every later assignment.
C7_PlacedWithDuplicateNeverChanges ==
    \A q \in placed : q.dups > 0 => Fields(scene, q.inst) = q.snapshot

C7_Witness ==
    /\ pc = "done"
    /\ Len(outcomes) >= 2
    /\ indices[1] = indices[2]
    /\ \E q \in placed : q.dups > 0 /\ q.src = 1 /\ q.slot = indices[2]

\* C8: during the commit of an accepted substitution, and when a host failure
\* ends it, at least one of source and replacement is visible.
C8_NeverBothHidden ==
    (pc \in {"copy", "dup", "hide", "show", "delete", "aborted"}) =>
       (Visible(original_object) \/ Visible(new_object))

\* The visible objects of a scene with their poses
VisibleView(sc) ==
    {<<o, sc.data[o].location, sc.data[o].rotation_euler, sc.data[o].scale>> :
        o \in {h \in sc.mesh : ~sc.data[h].hide_render}}

\* C9 as stated: the engine and the variant that restores a rejected
\* candidate's pose give every assignment the same outcome and end with the
\* same visible objects in the same poses.
C9_VariantEquivalent ==
    pc = "done" => (outcomes = outcomesRb /\ VisibleView(scene) = VisibleView(sceneRb))

SameSlotRun == \A i, j \in DOMAIN indices : indices[i] = indices[j]

\* C9 amended: in a run whose assignments all draw the same pool slot, the
\* engine and the variant give every assignment the same outcome, and after
\* every assignment their scenes and pools are the same but for the pose of
\* the object the drawn slot holds.
C9_VariantEquivalentOnOneSlot ==
    SameSlotRun =>
       /\ (pc \notin {"check"}) => outcomes = outcomesRb
       /\ (pc \in {"loop", "done"}) =>
             /\ objects_to_replace_with = poolRb
             /\ scene.mesh = sceneRb.mesh
             /\ DOMAIN scene.data = DOMAIN sceneRb.data
             /\ \A o \in DOMAIN scene.data :
                   \/ scene.data[o] = sceneRb.data[o]
                   \/ /\ \E i \in DOMAIN indices :
                            objects_to_replace_with[indices[i]] = o
                      /\ [scene.data[o] EXCEPT !.location = 0, !.rotation_euler = 0,
                                               !.scale = Ones]
                         = [sceneRb.data[o] EXCEPT !.location = 0,
                                                   !.rotation_euler = 0,
                                                   !.scale = Ones]

C9_Witness ==
    /\ pc = "done"
    /\ SameSlotRun
    /\ Len(outcomes) >= 2
    /\ outcomes[1] = "Rejected"
    /\ outcomes[2] = "Accepted"
    /\ Len(provided.replace_with) = 2

\* the template's properties overwritten key by key with the source's
Overwritten(tmpl, src) ==
    [k \in DOMAIN tmpl \cup DOMAIN src |-> IF k \in DOMAIN src THEN src[k] ELSE tmpl[k]]

\* C10: with copy_properties on, the properties of every placed replacement
\* are those of its pool template overwritten with those of the one source
\* it replaced.  Stated for the runs in which every duplicate call returned a
\* handle, so that each placed replacement is an object of its own.
C10_PropsFromOwnSourceOnly ==
    (copy_properties # 0 /\ \A q \in placed : q.dups > 0) =>
       \A q \in placed :
          scene.data[q.inst].props =
             Overwritten(scene0.data[provided.replace_with[q.slot]].props,
                         scene0.data[q.src].props)

====
